---- MODULE Spec2Model ----
(***************************************************************************)
(* RDFin: RealDebrid -> Jellyfin .strm helper (src/app/rdfin_strm.py) and   *)
(* the log re-fetch grouping of its Flask front end (src/app/app.py).       *)
(*                                                                          *)
(* Strings are sequences of one-character strings, so that sanitising,      *)
(* stem extraction, marker detection and path inference are computed the    *)
(* way the Python code computes them.                                       *)
(***************************************************************************)
EXTENDS Integers, Sequences, FiniteSets, TLC

VARIABLES
    fs,        \* descriptor files under MEDIA_ROOT: path (segments) -> content
    log,       \* history log per media type: sequence of records
    jobs,      \* the ingestion processes (rd_strm.py invocations)
    refresh,   \* outcome of the last spawn_refresh_job_simple call
    raw,       \* input of the pure-function harness
    res        \* output of the pure-function harness

vars == <<fs, log, jobs, refresh, raw, res>>

(***************************************************************************)
(* Bounds of the model.                                                     *)
(***************************************************************************)
MaxLen == 3
MaxLinks == 3
MaxJobs == 2
MaxEntries == 3
MaxItems == 4
MaxOverlap == 2

(***************************************************************************)
(* Characters and string helpers.                                           *)
(***************************************************************************)
Reserved == {"\\", "/", ":", "*", "?", "\"", "<", ">", "|"}

Whitespace == {" ", "\t"}

Digits == {"0", "1", "2", "3", "4", "5", "6", "7", "8", "9"}

DigitVal(c) ==
    CASE c = "0" -> 0 [] c = "1" -> 1 [] c = "2" -> 2 [] c = "3" -> 3
      [] c = "4" -> 4 [] c = "5" -> 5 [] c = "6" -> 6 [] c = "7" -> 7
      [] c = "8" -> 8 [] c = "9" -> 9

DigitChar(n) ==
    CASE n = 0 -> "0" [] n = 1 -> "1" [] n = 2 -> "2" [] n = 3 -> "3"
      [] n = 4 -> "4" [] n = 5 -> "5" [] n = 6 -> "6" [] n = 7 -> "7"
      [] n = 8 -> "8" [] n = 9 -> "9"

UpperSeq ==
    <<"A", "B", "C", "D", "E", "F", "G", "H", "I", "J", "K", "L", "M",
      "N", "O", "P", "Q", "R", "S", "T", "U", "V", "W", "X", "Y", "Z">>

LowerSeq ==
    <<"a", "b", "c", "d", "e", "f", "g", "h", "i", "j", "k", "l", "m",
      "n", "o", "p", "q", "r", "s", "t", "u", "v", "w", "x", "y", "z">>

\* str.lower() of one character
Lower(c) ==
    IF \E k \in 1..26 : UpperSeq[k] = c
    THEN LowerSeq[CHOOSE k \in 1..26 : UpperSeq[k] = c]
    ELSE c

LowerStr(s) == [i \in 1..Len(s) |-> Lower(s[i])]

\* "".join(c for c in s if c not in chars)
RemoveChars(s, chars) == SelectSeq(s, LAMBDA c : c \notin chars)

RECURSIVE LStripChars(_, _)
LStripChars(s, chars) ==
    IF s # <<>> /\ Head(s) \in chars THEN LStripChars(Tail(s), chars) ELSE s

RECURSIVE RStripChars(_, _)
RStripChars(s, chars) ==
    IF s # <<>> /\ s[Len(s)] \in chars
    THEN RStripChars(SubSeq(s, 1, Len(s) - 1), chars)
    ELSE s

\* str.strip(chars)
StripChars(s, chars) == RStripChars(LStripChars(s, chars), chars)

\* str.strip(): whitespace on both sides
Strip(s) == StripChars(s, Whitespace)

StartsWith(s, p) == Len(s) >= Len(p) /\ SubSeq(s, 1, Len(p)) = p

EndsWith(s, p) == Len(s) >= Len(p) /\ SubSeq(s, Len(s) - Len(p) + 1, Len(s)) = p

\* positions of character c in s
Positions(s, c) == {i \in 1..Len(s) : s[i] = c}

SetMax(S) == CHOOSE x \in S : \A y \in S : y <= x

SetMin(S) == CHOOSE x \in S : \A y \in S : x <= y

\* str.split(sep) for a one-character separator
RECURSIVE Split(_, _)
Split(s, sep) ==
    IF Positions(s, sep) = {}
    THEN <<s>>
    ELSE LET i == SetMin(Positions(s, sep))
         IN  <<SubSeq(s, 1, i - 1)>> \o Split(SubSeq(s, i + 1, Len(s)), sep)

\* decimal digits of a natural number
RECURSIVE Dec(_)
Dec(n) == IF n < 10 THEN <<DigitChar(n)>> ELSE Dec(n \div 10) \o <<DigitChar(n % 10)>>

\* f"{n:02d}" for n >= 0
Fmt02(n) == IF n < 10 THEN <<"0", DigitChar(n)>> ELSE Dec(n)

\* int(s) for a non-empty string of digits
RECURSIVE ParseInt(_)
ParseInt(s) ==
    IF Len(s) = 1 THEN DigitVal(s[1])
    ELSE 10 * ParseInt(SubSeq(s, 1, Len(s) - 1)) + DigitVal(s[Len(s)])

(***************************************************************************)
(* Name Sanitizer (rdfin_strm.py).                                          *)
(***************************************************************************)
Unnamed == <<"u", "n", "n", "a", "m", "e", "d">>

sanitize_name(name) ==
    IF name = <<>>
    THEN Unnamed
    ELSE LET safe == Strip(RemoveChars(name, Reserved))
         IN  Strip(RStripChars(safe, {".", " "}))

\* PurePosixPath(s).parts without the root: empty and "." segments are dropped
PathParts(s) == SelectSeq(Split(s, "/"), LAMBDA seg : seg # <<>> /\ seg # <<".">>)

\* PurePosixPath(s).name
PathName(s) ==
    LET parts == PathParts(s) IN IF parts = <<>> THEN <<>> ELSE parts[Len(parts)]

\* PurePosixPath(s).stem: the name without its last suffix
PathStem(s) ==
    LET name == PathName(s)
        dots == Positions(name, ".")
    IN  IF dots = {} THEN name
        ELSE LET i == SetMax(dots)
             IN  IF 1 < i /\ i < Len(name) THEN SubSeq(name, 1, i - 1) ELSE name

strip_extension(name) == IF name = <<>> THEN Unnamed ELSE PathStem(name)

(***************************************************************************)
(* URL helpers (urllib.parse as used by name_from_url).                     *)
(***************************************************************************)
LowerLetters == {LowerSeq[k] : k \in 1..26}

UpperLetters == {UpperSeq[k] : k \in 1..26}

SchemeChars == LowerLetters \cup UpperLetters \cup Digits \cup {"+", "-", "."}

\* the part of s before the first character of chars (all of s if there is none)
Before(s, chars) ==
    LET hits == {i \in 1..Len(s) : s[i] \in chars}
    IN  IF hits = {} THEN s ELSE SubSeq(s, 1, SetMin(hits) - 1)

\* urlparse(url): scheme, then //netloc, then the path up to ? or #
UrlParse(url) ==
    LET colons == Positions(url, ":")
        c == IF colons = {} THEN 0 ELSE SetMin(colons)
        hasScheme ==
            /\ c > 1
            /\ url[1] \in LowerLetters \cup UpperLetters
            /\ \A i \in 1..(c - 1) : url[i] \in SchemeChars
        rest == IF hasScheme THEN SubSeq(url, c + 1, Len(url)) ELSE url
        hasNetloc == StartsWith(rest, <<"/", "/">>)
        afterSlashes == SubSeq(rest, 3, Len(rest))
        netloc == IF hasNetloc THEN Before(afterSlashes, {"/", "?", "#"}) ELSE <<>>
        tail == IF hasNetloc
                THEN SubSeq(afterSlashes, Len(netloc) + 1, Len(afterSlashes))
                ELSE rest
    IN  [netloc |-> netloc, path |-> Before(tail, {"?", "#"})]

\* unquote(s): percent-decoding, for the escapes of space, dot, slash and percent;
\* any other %xx is left as written
RECURSIVE Unquote(_)
Unquote(s) ==
    IF s = <<>> THEN <<>>
    ELSE IF Len(s) >= 3 /\ s[1] = "%" /\ <<s[2], s[3]>> \in
                {<<"2", "0">>, <<"2", "E">>, <<"2", "e">>, <<"2", "F">>, <<"2", "f">>, <<"2", "5">>}
         THEN LET ch == CASE <<s[2], s[3]>> = <<"2", "0">> -> " "
                          [] <<s[2], s[3]>> = <<"2", "5">> -> "%"
                          [] s[3] \in {"E", "e"} -> "."
                          [] OTHER -> "/"
              IN  <<ch>> \o Unquote(SubSeq(s, 4, Len(s)))
         ELSE <<s[1]>> \o Unquote(Tail(s))

\* str.replace(a, b) for single characters
ReplaceChar(s, a, b) == [i \in 1..Len(s) |-> IF s[i] = a THEN b ELSE s[i]]

name_from_url(url) ==
    LET p == UrlParse(url)
        name == PathName(Unquote(p.path))
    IN  sanitize_name(IF name = <<>> THEN ReplaceChar(p.netloc, ".", "_") ELSE name)

(***************************************************************************)
(* Descriptor paths.  A path is the sequence of its segments below          *)
(* MEDIA_ROOT; joining drops empty and "." segments as pathlib does.        *)
(***************************************************************************)
S_movies == <<"m", "o", "v", "i", "e", "s">>

S_tv == <<"t", "v">>

Ext_strm == <<".", "s", "t", "r", "m">>

SeasonWord == <<"S", "e", "a", "s", "o", "n", " ">>

Sep_dash == <<" ", "-", " ">>

EpSuffix == <<"_", "e", "p">>

PathJoin(segs) == SelectSeq(segs, LAMBDA seg : seg # <<>> /\ seg # <<".">>)

\* re.search(r'S\d{2}E\d{2}', s, re.IGNORECASE)
HasMarker(s) ==
    \E i \in 1..(Len(s) - 5) :
        /\ s[i] \in {"S", "s"}
        /\ s[i + 1] \in Digits /\ s[i + 2] \in Digits
        /\ s[i + 3] \in {"E", "e"}
        /\ s[i + 4] \in Digits /\ s[i + 5] \in Digits

\* f"S{season:02d}E{episode:02d}"
SxxExx(season, episode) == <<"S">> \o Fmt02(season) \o <<"E">> \o Fmt02(episode)

SeasonFolder(season) == SeasonWord \o Fmt02(season)

SeasonPath(show, season) == PathJoin(<<S_tv, sanitize_name(show), SeasonFolder(season)>>)

\* add_movie: the path depends on the title alone
MovieDestOfTitle(title) ==
    LET safe == sanitize_name(strip_extension(title))
    IN  PathJoin(<<S_movies, safe, safe \o Ext_strm>>)

\* a or b, by truthiness
OrElse(a, b) == IF a # <<>> THEN a ELSE b

\* the "fname or name_from_url(link) or fallback" chain of the batch handlers,
\* with fname taken from the direct link when RD gave no file name
BatchBase(resp, link, fallback) ==
    strip_extension(
        OrElse(OrElse(OrElse(resp.filename, name_from_url(resp.direct)),
                      name_from_url(link)),
               fallback))

\* add_movie_links_from_list: the path comes from the resolved file name
MovieDestOfResp(resp, link) ==
    LET safe == sanitize_name(BatchBase(resp, link, Unnamed))
    IN  PathJoin(<<S_movies, safe, safe \o Ext_strm>>)

\* add_episode: base name from the RD file name, else from the direct URL
EpisodeBaseSingle(resp) ==
    sanitize_name(IF resp.filename # <<>>
                  THEN strip_extension(resp.filename)
                  ELSE strip_extension(name_from_url(resp.direct)))

EpisodeBaseBatch(resp, link, show) ==
    sanitize_name(BatchBase(resp, link, sanitize_name(show) \o EpSuffix))

\* a variant for comparison: the marker is appended whatever the name holds
EpisodeFinalName_always(base_safe, season, episode) ==
    base_safe \o Sep_dash \o SxxExx(season, episode) \o Ext_strm

\* keep an embedded marker, else append " - SxxEyy"
EpisodeFinalName(base_safe, season, episode) ==
    IF HasMarker(base_safe)
    THEN base_safe \o Ext_strm
    ELSE base_safe \o Sep_dash \o SxxExx(season, episode) \o Ext_strm

\* a variant for comparison: a glob that matches no descriptor
ExistingCount_nomatch(files, season_path) ==
    Cardinality({p \in DOMAIN files :
        /\ Len(p) = Len(season_path) + 1
        /\ SubSeq(p, 1, Len(season_path)) = season_path
        /\ EndsWith(p[Len(p)], <<".", "m", "k", "v">>)})

\* len(list(season_path.glob("*.strm")))
ExistingCount(files, season_path) ==
    Cardinality({p \in DOMAIN files :
        /\ Len(p) = Len(season_path) + 1
        /\ SubSeq(p, 1, Len(season_path)) = season_path
        /\ EndsWith(p[Len(p)], Ext_strm)})

\* a variant for comparison: the index is the count itself
SynthIndex_count(files, season_path) == ExistingCount(files, season_path)

\* idx = existing + 1
SynthIndex(files, season_path) == ExistingCount(files, season_path) + 1

\* write_strm_file: the file holds direct_url.strip() and a newline
StrmContent(direct) == Strip(direct) \o <<"\n">>

\* a variant for comparison: an existing descriptor is kept
write_strm_file_keep(files, dest, direct) ==
    IF dest \in DOMAIN files THEN files
    ELSE [p \in DOMAIN files \cup {dest} |->
            IF p = dest THEN StrmContent(direct) ELSE files[p]]

write_strm_file(files, dest, direct) ==
    [p \in DOMAIN files \cup {dest} |-> IF p = dest THEN StrmContent(direct) ELSE files[p]]

(***************************************************************************)
(* Inputs: the links a caller passes, and what the unrestrict service can   *)
(* answer.                                                                  *)
(***************************************************************************)
LinkBase == <<"h", "t", "t", "p", ":", "/", "/", "x", "/">>

Link(k) == LinkBase \o Dec(k)

LinkSeq(n) == [k \in 1..n |-> Link(k)]

Blank == <<" ">>

Batches == {LinkSeq(n) : n \in 1..MaxLinks} \cup {<<Blank, Link(1)>>}

FnPlain == <<"A", ".", "m", "k", "v">>

FnMarked == <<"A", " ", "-", " ", "S", "0", "1", "E", "0", "2", ".", "m", "k", "v">>

D1 == <<"h", "t", "t", "p", ":", "/", "/", "d", "/", "A", ".", "m", "k", "v">>

D2 == <<"h", "t", "t", "p", ":", "/", "/", "e", "/", "A", ".", "m", "k", "v">>

TitleA == <<"A", ".", "m", "k", "v">>

TitleB == <<"B", ":">>

ShowA == <<"A">>

ShowA2 == <<"A", "?">>

Titles == {TitleA, TitleB}

Shows == {ShowA, ShowA2}

Seasons == {1}

Episodes == {1, 2}

\* the canonical answer of unrestrict: an HTTP status, and for 200 the
\* file name (empty for none) and the direct link (empty for none)
Answer(status, filename, direct) ==
    [status |-> status, filename |-> filename, direct |-> direct]

Responses ==
    {Answer(503, <<>>, <<>>), Answer(200, FnPlain, <<>>),
     Answer(200, FnPlain, D1), Answer(200, FnPlain, D2),
     Answer(200, FnMarked, D1), Answer(200, <<>>, D2)}

\* unrestrict raises on a status other than 200; the callers raise on no direct link
Resolves(r) == r.status = 200 /\ r.direct # <<>>

(***************************************************************************)
(* The ingestion processes.  One job is one invocation of rd_strm.py.       *)
(***************************************************************************)
JobIds == 1..MaxJobs

NoItem ==
    [link |-> <<>>, direct |-> <<>>, filename |-> <<>>, dest |-> <<>>,
     synth |-> FALSE, idx |-> 0]

IdleJob ==
    [pc |-> "idle", kind |-> "none", title |-> <<>>, show |-> <<>>, season |-> 0,
     episode |-> 0, links |-> <<>>, i |-> 1, written |-> 0, errors |-> <<>>,
     cur |-> NoItem, hist |-> <<>>, origin |-> "cli"]

NewJob(kind, title, show, season, episode, links) ==
    [IdleJob EXCEPT !.pc = "next", !.kind = kind, !.title = title, !.show = show,
                    !.season = season, !.episode = episode, !.links = links]

IsBatch(job) == job.kind \in {"add-movie-links", "add-episode-links"}

IsEpisode(job) == job.kind \in {"add-episode", "add-episode-links"}

MediaType(job) == IF IsEpisode(job) THEN "tv" ELSE "movies"

\* the batch handlers strip each line; the single handlers pass the link as given
CurLink(job) == IF IsBatch(job) THEN Strip(job.links[job.i]) ELSE job.links[job.i]

Quiet == \A k \in JobIds : jobs[k].pc \in {"idle", "done", "raised"}

\* job slots are taken in order
FirstIdle(j) == jobs[j].pc = "idle" /\ \A k \in 1..(j - 1) : jobs[k].pc # "idle"

RECURSIVE LinksUpTo(_, _)
LinksUpTo(js, k) == IF k = 0 THEN 0 ELSE Len(js[k].links) + LinksUpTo(js, k - 1)

\* the model stops taking commands once MaxItems links have been handed in
Room(links) == LinksUpTo(jobs, MaxJobs) + Len(links) <= MaxItems

AddMovie(j) ==
    /\ FirstIdle(j)
    /\ Room(<<Link(1)>>)
    /\ \E title \in Titles :
         jobs' = [jobs EXCEPT ![j] = NewJob("add-movie", title, <<>>, 0, 0, <<Link(1)>>)]
    /\ UNCHANGED <<fs, log, refresh, raw, res>>

AddEpisode(j) ==
    /\ FirstIdle(j)
    /\ Room(<<Link(1)>>)
    /\ \E show \in Shows, season \in Seasons, episode \in Episodes :
         jobs' = [jobs EXCEPT ![j] =
                    NewJob("add-episode", <<>>, show, season, episode, <<Link(1)>>)]
    /\ UNCHANGED <<fs, log, refresh, raw, res>>

AddMovieLinks(j) ==
    /\ FirstIdle(j)
    /\ \E links \in Batches :
         /\ Room(links)
         /\ jobs' = [jobs EXCEPT ![j] = NewJob("add-movie-links", <<>>, <<>>, 0, 0, links)]
    /\ UNCHANGED <<fs, log, refresh, raw, res>>

AddEpisodeLinks(j) ==
    /\ FirstIdle(j)
    /\ \E show \in Shows, season \in Seasons, links \in Batches :
         /\ Room(links)
         /\ jobs' = [jobs EXCEPT ![j] =
                      NewJob("add-episode-links", <<>>, show, season, 0, links)]
    /\ UNCHANGED <<fs, log, refresh, raw, res>>

\* the loop's "if not link: continue"
SkipBlank(j) ==
    LET job == jobs[j] IN
    /\ job.pc = "next" /\ job.i <= Len(job.links)
    /\ IsBatch(job) /\ CurLink(job) = <<>>
    /\ jobs' = [jobs EXCEPT ![j].i = @ + 1]
    /\ UNCHANGED <<fs, log, refresh, raw, res>>

FailItem(link) == [NoItem EXCEPT !.link = link] @@ [ok |-> FALSE]

\* a variant for comparison: the batch records the failure and stops there
AfterFailure_stop(job, link, reason) ==
    IF IsBatch(job)
    THEN [job EXCEPT !.errors = Append(@, <<link, reason>>), !.i = Len(job.links) + 1,
                     !.hist = Append(@, FailItem(link))]
    ELSE [job EXCEPT !.pc = "raised", !.hist = Append(@, FailItem(link))]

\* what a failed resolution does to the job: a batch records (link, reason) and
\* goes on, a single command lets the error propagate
AfterFailure(job, link, reason) ==
    IF IsBatch(job)
    THEN [job EXCEPT !.errors = Append(@, <<link, reason>>), !.i = @ + 1,
                     !.hist = Append(@, FailItem(link))]
    ELSE [job EXCEPT !.pc = "raised", !.hist = Append(@, FailItem(link))]

ResolveFail(j) ==
    LET job == jobs[j] IN
    /\ job.pc = "next" /\ job.i <= Len(job.links)
    /\ IsBatch(job) => CurLink(job) # <<>>
    /\ \E r \in Responses :
         /\ ~Resolves(r)
         /\ jobs' = [jobs EXCEPT ![j] =
                AfterFailure(job, CurLink(job),
                    IF r.status # 200 THEN "Real-Debrid error" ELSE "No direct URL returned")]
    /\ UNCHANGED <<fs, log, refresh, raw, res>>

\* the item of an episode: its base name decides whether an index is synthesized
EpisodeItem(job, r, link, base, idx) ==
    [link |-> link, direct |-> r.direct, filename |-> r.filename,
     dest |-> PathJoin(SeasonPath(job.show, job.season)
                        \o <<EpisodeFinalName(base, job.season, idx)>>),
     synth |-> ~HasMarker(base),
     idx |-> IF HasMarker(base) THEN 0 ELSE idx]

MovieItem(r, link, dest) ==
    [link |-> link, direct |-> r.direct, filename |-> r.filename, dest |-> dest,
     synth |-> FALSE, idx |-> 0]

\* the item a successful resolution leads to: where it will be written
PlaceItem(job, r, link, files) ==
    CASE job.kind = "add-movie" -> MovieItem(r, link, MovieDestOfTitle(job.title))
      [] job.kind = "add-movie-links" -> MovieItem(r, link, MovieDestOfResp(r, link))
      [] job.kind = "add-episode" ->
            EpisodeItem(job, r, link, EpisodeBaseSingle(r), job.episode)
      [] OTHER ->
            EpisodeItem(job, r, link, EpisodeBaseBatch(r, link, job.show),
                        SynthIndex(files, SeasonPath(job.show, job.season)))

\* the job holds the item until it is written and logged; hist keeps every
\* resolution outcome of the job, in processing order
Placed(job, item) ==
    [job EXCEPT !.pc = "write", !.cur = item, !.hist = Append(@, item @@ [ok |-> TRUE])]

ResolveOk(j) ==
    LET job == jobs[j] IN
    /\ job.pc = "next" /\ job.i <= Len(job.links)
    /\ IsBatch(job) => CurLink(job) # <<>>
    /\ \E r \in Responses :
         /\ Resolves(r)
         /\ jobs' = [jobs EXCEPT ![j] = Placed(job, PlaceItem(job, r, CurLink(job), fs))]
    /\ UNCHANGED <<fs, log, refresh, raw, res>>

WriteStrm(j) ==
    LET job == jobs[j] IN
    /\ job.pc = "write"
    /\ fs' = write_strm_file(fs, job.cur.dest, job.cur.direct)
    /\ jobs' = [jobs EXCEPT ![j].pc = "log"]
    /\ UNCHANGED <<log, refresh, raw, res>>

\* a variant for comparison: the log file is opened for writing, not appending
log_entry_rewrite(logs, media_type, link, target, rd_filename) ==
    [logs EXCEPT ![media_type] =
        <<[link |-> link, target |-> target, rd_filename |-> rd_filename]>>]

\* log_entry: one record appended to the media type's log
log_entry(logs, media_type, link, target, rd_filename) ==
    [logs EXCEPT ![media_type] =
        Append(@, [link |-> link, target |-> target, rd_filename |-> rd_filename])]

LogEntry(j) ==
    LET job == jobs[j] IN
    /\ job.pc = "log"
    /\ log' = log_entry(log, MediaType(job), job.cur.link, job.cur.dest, job.cur.filename)
    /\ jobs' = [jobs EXCEPT ![j] =
            [job EXCEPT !.pc = "next", !.i = @ + 1,
                        !.written = IF IsBatch(job) THEN @ + 1 ELSE @,
                        !.cur = NoItem]]
    /\ UNCHANGED <<fs, refresh, raw, res>>

\* the handler returns (a batch returns written, errors)
Finish(j) ==
    LET job == jobs[j] IN
    /\ job.pc = "next" /\ job.i > Len(job.links)
    /\ jobs' = [jobs EXCEPT ![j].pc = "done"]
    /\ UNCHANGED <<fs, log, refresh, raw, res>>

Step(j) ==
    \/ SkipBlank(j)
    \/ ResolveFail(j)
    \/ ResolveOk(j)
    \/ WriteStrm(j)
    \/ LogEntry(j)
    \/ Finish(j)

NoJobs == [j \in JobIds |-> IdleJob]

NoLog == [movies |-> <<>>, tv |-> <<>>]

NoFiles == <<>>

InitJobs ==
    /\ fs = NoFiles
    /\ log = NoLog
    /\ jobs = NoJobs
    /\ refresh = <<>>
    /\ raw = <<>>
    /\ res = <<>>

(***************************************************************************)
(* Sequential use: a command is started only when no other is running.      *)
(***************************************************************************)
StartSeq(j) ==
    /\ Quiet
    /\ \/ AddMovie(j)
       \/ AddEpisode(j)
       \/ AddMovieLinks(j)
       \/ AddEpisodeLinks(j)

NextSeq == \E j \in JobIds : StartSeq(j) \/ Step(j)

SpecSeq == InitJobs /\ [][NextSeq]_vars

(***************************************************************************)
(* Log parsing and identity inference (app.py).  None is the empty string   *)
(* for a show, a link or a target, which the code tests by truthiness       *)
(* only; a season is None (NoSeason) or the number read, and a season is    *)
(* falsy when it is None or 0.                                              *)
(***************************************************************************)
Tok_link == <<"l", "i", "n", "k", "=">>

Tok_target == <<"t", "a", "r", "g", "e", "t", "=">>

Tok_http == <<"h", "t", "t", "p", ":", "/", "/">>

Tok_https == <<"h", "t", "t", "p", "s", ":", "/", "/">>

Tok_season == <<"s", "e", "a", "s", "o", "n">>

Unknown == <<"U", "n", "k", "n", "o", "w", "n">>

\* p.partition("=")[2].strip()
AfterEquals(p) == Strip(SubSeq(p, SetMin(Positions(p, "=")) + 1, Len(p)))

\* the last part that starts with a token (the loop keeps the last one), or none
RECURSIVE LastToken(_, _, _)
LastToken(parts, k, tok) ==
    IF k = 0 THEN <<>>
    ELSE IF StartsWith(LowerStr(parts[k]), tok)
         THEN AfterEquals(parts[k])
         ELSE LastToken(parts, k - 1, tok)

\* for p in parts[::-1]: the last part that is a bare http(s) URL
RECURSIVE LastBareUrl(_, _)
LastBareUrl(parts, k) ==
    IF k = 0 THEN <<>>
    ELSE IF StartsWith(parts[k], Tok_http) \/ StartsWith(parts[k], Tok_https)
         THEN parts[k]
         ELSE LastBareUrl(parts, k - 1)

\* one non-empty line of the log
ParseLine(ln) ==
    LET split == Split(ln, "|")
        parts == [k \in 1..Len(split) |-> Strip(split[k])]
        tokLink == LastToken(parts, Len(parts), Tok_link)
    IN  [link |-> IF tokLink # <<>> THEN tokLink ELSE LastBareUrl(parts, Len(parts)),
         target |-> LastToken(parts, Len(parts), Tok_target),
         raw |-> ln]

\* parse_log_entries: blank lines are skipped
RECURSIVE parse_log_entries(_)
parse_log_entries(lines) ==
    IF lines = <<>> THEN <<>>
    ELSE IF Strip(Head(lines)) = <<>> THEN parse_log_entries(Tail(lines))
         ELSE <<ParseLine(Strip(Head(lines)))>> \o parse_log_entries(Tail(lines))

\* season_num = None
NoSeason == -1

\* int(re.search(r'(\d{1,2})', s).group(1)), or None when there is no digit
FirstNumber(s) ==
    LET hits == {i \in 1..Len(s) : s[i] \in Digits}
    IN  IF hits = {} THEN NoSeason
        ELSE LET i == SetMin(hits)
             IN  IF i < Len(s) /\ s[i + 1] \in Digits
                 THEN ParseInt(SubSeq(s, i, i + 1))
                 ELSE ParseInt(SubSeq(s, i, i))

NoIdentity == [show |-> <<>>, season |-> NoSeason]

infer_show_and_season_from_target(target) ==
    IF target = <<>> THEN NoIdentity
    ELSE LET parts == PathParts(target)
             lower_parts == [k \in 1..Len(parts) |-> LowerStr(parts[k])]
             tvs == {k \in 1..Len(parts) : lower_parts[k] = S_tv}
         IN  IF tvs # {}
             THEN LET idx == SetMin(tvs)
                  IN  [show |-> IF Len(parts) > idx THEN parts[idx + 1] ELSE <<>>,
                       season |-> IF Len(parts) > idx + 1
                                  THEN FirstNumber(parts[idx + 2]) ELSE NoSeason]
             ELSE IF Len(parts) >= 3
                  THEN [show |-> parts[Len(parts) - 2],
                        season |-> FirstNumber(parts[Len(parts) - 1])]
                  ELSE NoIdentity

\* re.search(r'([Ss](\d{1,2})[Ee]\d{1,2})', base): where the leftmost match
\* starts and how many season digits it takes (two if both ways match)
MarkerAt(s, i, n) ==
    /\ i + n + 2 <= Len(s)
    /\ s[i] \in {"S", "s"}
    /\ \A k \in 1..n : s[i + k] \in Digits
    /\ s[i + n + 1] \in {"E", "e"}
    /\ s[i + n + 2] \in Digits

\* re.search(r'[Ss]eason[ ._-]?(\d{1,2})', base, re.IGNORECASE): n is 1 when
\* a separator is taken
SeasonAt(s, i, n) ==
    /\ i + 6 + n <= Len(s)
    /\ LowerStr(SubSeq(s, i, i + 5)) = Tok_season
    /\ (n = 1 => s[i + 6] \in {" ", ".", "_", "-"})
    /\ s[i + 6 + n] \in Digits

\* show_part.replace(".", " ").strip(), or none for an empty show_part
ShowFromPrefix(prefix) == Strip(ReplaceChar(prefix, ".", " "))

infer_from_filename_for_season(fname) ==
    IF fname = <<>> THEN NoIdentity
    ELSE LET base == PathStem(fname)
             ms == {i \in 1..Len(base) : MarkerAt(base, i, 1) \/ MarkerAt(base, i, 2)}
             m2s == {i \in 1..Len(base) : SeasonAt(base, i, 0) \/ SeasonAt(base, i, 1)}
         IN  IF ms # {}
             THEN LET i == SetMin(ms)
                      n == IF MarkerAt(base, i, 2) THEN 2 ELSE 1
                      show_part == StripChars(SubSeq(base, 1, i - 1), {" ", "-", ".", "_"})
                  IN  [show |-> ShowFromPrefix(show_part),
                       season |-> ParseInt(SubSeq(base, i + 1, i + n))]
             ELSE IF m2s # {}
                  THEN LET i == SetMin(m2s)
                           \* the separator is optional: it is taken when present
                           n == IF SeasonAt(base, i, 1) THEN 1 ELSE 0
                       IN  [show |-> ShowFromPrefix(SubSeq(base, 1, i - 1)),
                            season |-> FirstNumber(SubSeq(base, i + 6 + n, Len(base)))]
                  ELSE NoIdentity

\* one later attempt of the chain: tried only while no show is known, and
\* taken when it yields a show or a season ("if s or sn")
TryNext(found, attempt, tried) ==
    IF found.show = <<>> /\ tried /\ (attempt.show # <<>> \/ attempt.season > 0)
    THEN attempt
    ELSE found

\* the first attempt: the target path, taken only when it yields a show ("if s")
TryTarget(attempt) == IF attempt.show # <<>> THEN attempt ELSE NoIdentity

\* show = "Unknown" if no show, season = 1 if no season
WithDefaults(found) ==
    [show |-> IF found.show = <<>> THEN Unknown ELSE found.show,
     season |-> IF found.season <= 0 THEN 1 ELSE found.season]

\* the grouping key of one log entry (spawn_refresh_job_simple, the tv loop)
InferKey(e) ==
    WithDefaults(
        TryNext(TryNext(TryTarget(infer_show_and_season_from_target(e.target)),
                        infer_from_filename_for_season(PathName(e.target)),
                        e.target # <<>>),
                infer_from_filename_for_season(e.link),
                TRUE))

\* a variant for comparison: the link is put in front of its group
AddToGroup_front(groups, key, link) ==
    IF \E g \in 1..Len(groups) : groups[g].key = key
    THEN [g \in 1..Len(groups) |->
            IF groups[g].key = key
            THEN [groups[g] EXCEPT !.links = <<link>> \o @]
            ELSE groups[g]]
    ELSE Append(groups, [key |-> key, links |-> <<link>>])

\* groups.setdefault(key, []).append(link): groups keep insertion order
AddToGroup(groups, key, link) ==
    IF \E g \in 1..Len(groups) : groups[g].key = key
    THEN [g \in 1..Len(groups) |->
            IF groups[g].key = key
            THEN [groups[g] EXCEPT !.links = Append(@, link)]
            ELSE groups[g]]
    ELSE Append(groups, [key |-> key, links |-> <<link>>])

RECURSIVE GroupEntries(_, _)
GroupEntries(entries, groups) ==
    IF entries = <<>> THEN groups
    ELSE LET e == Head(entries)
         IN  IF e.link = <<>>
             THEN GroupEntries(Tail(entries), groups)
             ELSE GroupEntries(Tail(entries), AddToGroup(groups, InferKey(e), e.link))

\* links = [e["link"] for e in entries if e.get("link")]
UsableLinks(entries) ==
    LET usable == SelectSeq(entries, LAMBDA e : e.link # <<>>)
    IN  [k \in 1..Len(usable) |-> usable[k].link]

(***************************************************************************)
(* The log re-fetch (spawn_refresh_job_simple).  The log file is an input:  *)
(* lines in the format log_entry writes, lines with no link, bare links.    *)
(***************************************************************************)
LineA1 ==
    <<"T", " ", "|", " ", "l", "i", "n", "k", "=", "h", "t", "t", "p", ":",
      "/", "/", "x", "/", "1", " ", "|", " ", "t", "a", "r", "g", "e", "t",
      "=", "/", "m", "e", "d", "i", "a", "/", "t", "v", "/", "A", "/", "S",
      "e", "a", "s", "o", "n", " ", "0", "1", "/", "a", ".", "s", "t", "r",
      "m", " ", "|", " ", "r", "d", "_", "f", "i", "l", "e", "n", "a", "m",
      "e", "=", "a", ".", "m", "k", "v">>

LineB ==
    <<"T", " ", "|", " ", "l", "i", "n", "k", "=", "h", "t", "t", "p", ":",
      "/", "/", "x", "/", "3", " ", "|", " ", "t", "a", "r", "g", "e", "t",
      "=", "/", "m", "e", "d", "i", "a", "/", "t", "v", "/", "B", "/", "S",
      "e", "a", "s", "o", "n", " ", "0", "2", "/", "c", ".", "s", "t", "r",
      "m", " ", "|", " ", "r", "d", "_", "f", "i", "l", "e", "n", "a", "m",
      "e", "=">>

LineA2 ==
    <<"T", " ", "|", " ", "l", "i", "n", "k", "=", "h", "t", "t", "p", ":",
      "/", "/", "x", "/", "2", " ", "|", " ", "t", "a", "r", "g", "e", "t",
      "=", "/", "m", "e", "d", "i", "a", "/", "t", "v", "/", "A", "/", "S",
      "e", "a", "s", "o", "n", " ", "0", "1", "/", "b", ".", "s", "t", "r",
      "m", " ", "|", " ", "r", "d", "_", "f", "i", "l", "e", "n", "a", "m",
      "e", "=", "b", ".", "m", "k", "v">>

LineNoLink ==
    <<"T", " ", "|", " ", "t", "a", "r", "g", "e", "t", "=", "/", "m", "e",
      "d", "i", "a", "/", "t", "v", "/", "A", "/", "S", "e", "a", "s", "o",
      "n", " ", "0", "1", "/", "a", ".", "s", "t", "r", "m">>

LineBare1 ==
    <<"h", "t", "t", "p", ":", "/", "/", "x", "/", "A", "?", ".", "S", "0",
      "1", "E", "0", "1", ".", "m", "k", "v">>

LineBare2 ==
    <<"h", "t", "t", "p", "s", ":", "/", "/", "x", "/", "A", ".", "S", "0",
      "1", "E", "0", "2", ".", "m", "k", "v">>

\* the log files tried: the first lines, at most MaxEntries, of these
BaseFiles ==
    {<<LineA1, LineB, LineA2, LineBare1>>,
     <<LineNoLink, Blank, LineA1, LineB>>,
     <<LineBare1, LineBare2, LineB, LineNoLink>>,
     <<Blank, LineBare2, LineNoLink, LineA1>>}

LogFiles == {SubSeq(f, 1, n) : f \in BaseFiles, n \in 0..MaxEntries}

MovieKey == [show |-> <<>>, season |-> 0]

\* what the call does with the parsed entries: an error, or the groups whose
\* jobs it starts (one group of all links for movies)
spawn_refresh_job_simple(media_type, entries) ==
    IF entries = <<>>
    THEN [status |-> "error", msg |-> "no links found in log", groups |-> <<>>]
    ELSE IF media_type = "movies"
         THEN IF UsableLinks(entries) = <<>>
              THEN [status |-> "error", msg |-> "no links found in movie log",
                    groups |-> <<>>]
              ELSE [status |-> "started", msg |-> "",
                    groups |-> <<[key |-> MovieKey, links |-> UsableLinks(entries)]>>]
         ELSE [status |-> "started", msg |-> "",
               groups |-> GroupEntries(entries, <<>>)]

\* the job a group is replayed by: add-movie-links, or add-episode-links with
\* the group's show and season
GroupJob(media_type, g) ==
    [NewJob(IF media_type = "movies" THEN "add-movie-links" ELSE "add-episode-links",
            <<>>, g.key.show, g.key.season, 0, g.links)
        EXCEPT !.origin = "refresh"]

IdleSlots == {j \in JobIds : jobs[j].pc = "idle"}

RECURSIVE SumLinks(_, _)
SumLinks(groups, k) == IF k = 0 THEN 0 ELSE Len(groups[k].links) + SumLinks(groups, k - 1)

\* the entries as the outcome keeps them
Brief(entries) ==
    [k \in 1..Len(entries) |-> [link |-> entries[k].link, target |-> entries[k].target]]

\* the groups' jobs take the idle slots from `first` on, in the groups' order
StartGroups(media_type, entries, out, first) ==
    /\ Len(out.groups) <= Cardinality(IdleSlots)
    /\ LinksUpTo(jobs, MaxJobs) + SumLinks(out.groups, Len(out.groups)) <= MaxItems
    /\ refresh' = [media |-> media_type, entries |-> Brief(entries),
                   status |-> out.status, msg |-> out.msg, groups |-> out.groups]
    /\ jobs' = [j \in JobIds |->
                  IF j >= first /\ j - first + 1 <= Len(out.groups)
                  THEN GroupJob(media_type, out.groups[j - first + 1])
                  ELSE jobs[j]]

RefreshEntries(media_type, entries) ==
    StartGroups(media_type, entries, spawn_refresh_job_simple(media_type, entries),
                IF IdleSlots = {} THEN MaxJobs + 1 ELSE SetMin(IdleSlots))

Refresh(media_type) ==
    /\ refresh = <<>>
    /\ IdleSlots = JobIds
    /\ \E exists \in BOOLEAN, lines \in LogFiles :
         IF ~exists
         THEN /\ lines = <<>>
              /\ refresh' = [media |-> media_type, entries |-> <<>>,
                             status |-> "not found", msg |-> "log not found",
                             groups |-> <<>>]
              /\ jobs' = jobs
         ELSE RefreshEntries(media_type, parse_log_entries(lines))
    /\ UNCHANGED <<fs, log, raw, res>>

(***************************************************************************)
(* Concurrent use: the jobs a refresh starts are detached processes, and    *)
(* batch commands may be started while others run.                          *)
(***************************************************************************)
\* a batch command typed while other jobs may be running; the model lets at
\* most MaxOverlap links be in the hands of jobs that can overlap with it
StartOverlapping(j) ==
    /\ AddEpisodeLinks(j)
    /\ LinksUpTo(jobs', MaxJobs) <= MaxOverlap

Next ==
    \/ \E media_type \in {"movies", "tv"} : Refresh(media_type)
    \/ \E j \in JobIds : StartOverlapping(j) \/ Step(j)

Spec == InitJobs /\ [][Next]_vars

(***************************************************************************)
(* Pure-function harness: the input is drawn in Init, the action applies    *)
(* the function.                                                            *)
(***************************************************************************)
Alphabet == {"a", " ", ".", "\t"} \cup Reserved

RECURSIVE StringsUpTo(_)
StringsUpTo(n) ==
    IF n = 0 THEN {<<>>}
    ELSE LET shorter == StringsUpTo(n - 1)
         IN  shorter \cup {Append(s, c) : s \in shorter, c \in Alphabet}

Pending == <<"pending">>

InitSanitize ==
    /\ raw \in StringsUpTo(MaxLen)
    /\ res = Pending
    /\ fs = NoFiles
    /\ log = NoLog
    /\ jobs = NoJobs
    /\ refresh = <<>>

Sanitize ==
    /\ res = Pending
    /\ res' = <<"done", sanitize_name(raw)>>
    /\ UNCHANGED <<fs, log, jobs, refresh, raw>>

NextSanitize == Sanitize

SpecSanitize == InitSanitize /\ [][NextSanitize]_vars

(***************************************************************************)
(* Pure-function harness for the episode destination: the command, the      *)
(* answer of the unrestrict service and the files present are drawn in      *)
(* Init, the action places the item as the handlers do.                     *)
(***************************************************************************)
FnLower == <<"a", ".", "s", "0", "1", "e", "0", "2", ".", "m", "k", "v">>

FnShort == <<"S", "1", "E", "2", ".", "m", "k", "v">>

NameSeasons == {1, 12, 100}

NameEpisodes == {2, 10}

NameAnswers ==
    {Answer(200, fn, D1) : fn \in {FnPlain, FnMarked, FnLower, FnShort}}
        \cup {Answer(200, <<>>, D2)}

NameJobs ==
    {NewJob("add-episode", <<>>, show, season, episode, <<Link(1)>>) :
        show \in Shows, season \in NameSeasons, episode \in NameEpisodes}
    \cup
    {NewJob("add-episode-links", <<>>, show, season, 0, <<Link(1)>>) :
        show \in Shows, season \in NameSeasons}

\* the season directory as found: empty, or holding one descriptor
NameFiles(job) ==
    {NoFiles,
     (SeasonPath(job.show, job.season) \o <<<<"x">> \o Ext_strm>>) :> StrmContent(D2)}

InitName ==
    /\ raw \in {[job |-> job, r |-> r, files |-> files] :
                    job \in NameJobs, r \in NameAnswers,
                    files \in UNION {NameFiles(j) : j \in NameJobs}}
    /\ raw.files \in NameFiles(raw.job)
    /\ res = Pending
    /\ fs = NoFiles
    /\ log = NoLog
    /\ jobs = NoJobs
    /\ refresh = <<>>

PlaceEpisode ==
    /\ res = Pending
    /\ res' = <<"done", PlaceItem(raw.job, raw.r, CurLink(raw.job), raw.files)>>
    /\ UNCHANGED <<fs, log, jobs, refresh, raw>>

NextName == PlaceEpisode

SpecName == InitName /\ [][NextName]_vars

(***************************************************************************)
(* Pure-function harness for the grouping key: the target and the link of   *)
(* one log entry are drawn in Init, the action infers the key as the tv     *)
(* loop of spawn_refresh_job_simple does.                                   *)
(***************************************************************************)
KeyTargets ==
    {<<>>,
     \* /media/tv/A/Season 02/a.strm
     <<"/", "m", "e", "d", "i", "a", "/", "t", "v", "/", "A", "/",
       "S", "e", "a", "s", "o", "n", " ", "0", "2", "/", "a", ".",
       "s", "t", "r", "m">>,
     \* /media/tv/A/Season 00/a.strm
     <<"/", "m", "e", "d", "i", "a", "/", "t", "v", "/", "A", "/",
       "S", "e", "a", "s", "o", "n", " ", "0", "0", "/", "a", ".",
       "s", "t", "r", "m">>,
     \* /media/tv/A/x.strm
     <<"/", "m", "e", "d", "i", "a", "/", "t", "v", "/", "A", "/",
       "x", ".", "s", "t", "r", "m">>,
     \* /TV/A/Season 02/a.strm
     <<"/", "T", "V", "/", "A", "/", "S", "e", "a", "s", "o", "n",
       " ", "0", "2", "/", "a", ".", "s", "t", "r", "m">>,
     \* /m/A/Season 02/a.strm
     <<"/", "m", "/", "A", "/", "S", "e", "a", "s", "o", "n", " ",
       "0", "2", "/", "a", ".", "s", "t", "r", "m">>,
     \* B.S03E01.strm
     <<"B", ".", "S", "0", "3", "E", "0", "1", ".", "s", "t", "r",
       "m">>,
     \* S04E01.strm
     <<"S", "0", "4", "E", "0", "1", ".", "s", "t", "r", "m">>,
     \* S00E01.strm
     <<"S", "0", "0", "E", "0", "1", ".", "s", "t", "r", "m">>,
     \* x.strm
     <<"x", ".", "s", "t", "r", "m">>}

KeyLinks ==
    {\* http://x/1
     <<"h", "t", "t", "p", ":", "/", "/", "x", "/", "1">>,
     \* http://x/C.S05E01.mkv
     <<"h", "t", "t", "p", ":", "/", "/", "x", "/", "C", ".", "S",
       "0", "5", "E", "0", "1", ".", "m", "k", "v">>,
     \* http://x/S06E01.mkv
     <<"h", "t", "t", "p", ":", "/", "/", "x", "/", "S", "0", "6",
       "E", "0", "1", ".", "m", "k", "v">>,
     \* http://x/C.S00E01.mkv
     <<"h", "t", "t", "p", ":", "/", "/", "x", "/", "C", ".", "S",
       "0", "0", "E", "0", "1", ".", "m", "k", "v">>,
     \* http://x/Season.7.mkv
     <<"h", "t", "t", "p", ":", "/", "/", "x", "/", "S", "e", "a",
       "s", "o", "n", ".", "7", ".", "m", "k", "v">>,
     \* http://x/c.s05e01.mkv
     <<"h", "t", "t", "p", ":", "/", "/", "x", "/", "c", ".", "s",
       "0", "5", "e", "0", "1", ".", "m", "k", "v">>}

InitKey ==
    /\ raw \in {[target |-> target, link |-> link] :
                    target \in KeyTargets, link \in KeyLinks}
    /\ res = Pending
    /\ fs = NoFiles
    /\ log = NoLog
    /\ jobs = NoJobs
    /\ refresh = <<>>

InferEntry ==
    /\ res = Pending
    /\ res' = <<"done", InferKey(raw)>>
    /\ UNCHANGED <<fs, log, jobs, refresh, raw>>

NextKey == InferEntry

SpecKey == InitKey /\ [][NextKey]_vars

(***************************************************************************)
(* Pure-function harness for the replay of a history record: an episode     *)
(* command and the answer of the unrestrict service are drawn in Init; the  *)
(* action places the item, formats its log line as log_entry does, parses   *)
(* the line and groups it as the re-fetch does.                             *)
(***************************************************************************)
\* MEDIA_ROOT, by default
MediaRoot == <<"/", "m", "e", "d", "i", "a">>

\* str(target_path)
RECURSIVE PathStr(_)
PathStr(segs) ==
    IF segs = <<>> THEN MediaRoot
    ELSE PathStr(SubSeq(segs, 1, Len(segs) - 1)) \o <<"/">> \o segs[Len(segs)]

\* the line log_entry writes, as read back and stripped of its newline; the
\* timestamp is the letter T
FormatRecord(link, dest, rd_filename) ==
    <<"T", " ", "|", " ">> \o Tok_link \o link
        \o <<" ", "|", " ">> \o Tok_target \o PathStr(dest)
        \o <<" ", "|", " ", "r", "d", "_", "f", "i", "l", "e", "n", "a", "m", "e", "=">>
        \o rd_filename

ShowQ == <<"?">>

TripShows == {ShowA, ShowA2, TitleB, ShowQ}

TripSeasons == {1, 12, 100}

TripJobs ==
    {NewJob("add-episode", <<>>, show, season, 2, <<Link(1)>>) :
        show \in TripShows, season \in TripSeasons}
    \cup
    {NewJob("add-episode-links", <<>>, show, season, 0, <<Link(1)>>) :
        show \in TripShows, season \in TripSeasons}

\* the item as placed in an empty directory, and the groups its record gives
Replayed(job, r) ==
    LET item == PlaceItem(job, r, CurLink(job), NoFiles)
        line == FormatRecord(item.link, item.dest, item.filename)
    IN  [item |-> item,
         groups |-> spawn_refresh_job_simple("tv", parse_log_entries(<<line>>)).groups]

InitTrip ==
    /\ raw \in {[job |-> job, r |-> r] : job \in TripJobs, r \in NameAnswers}
    /\ res = Pending
    /\ fs = NoFiles
    /\ log = NoLog
    /\ jobs = NoJobs
    /\ refresh = <<>>

Replay ==
    /\ res = Pending
    /\ res' = <<"done", Replayed(raw.job, raw.r)>>
    /\ UNCHANGED <<fs, log, jobs, refresh, raw>>

NextTrip == Replay

SpecTrip == InitTrip /\ [][NextTrip]_vars

(***************************************************************************)
(* What the claims below read off a job: the resolutions that succeeded,    *)
(* the ones that failed, and the links a batch actually processes.          *)
(***************************************************************************)
OkItems(job) == SelectSeq(job.hist, LAMBDA h : h.ok)

FailedItems(job) == SelectSeq(job.hist, LAMBDA h : ~h.ok)

LinksOf(items) == [k \in 1..Len(items) |-> items[k].link]

GivenLinks(job) ==
    LET kept == SelectSeq(job.links, LAMBDA l : Strip(l) # <<>>)
    IN  [k \in 1..Len(kept) |-> Strip(kept[k])]

RecordOf(item) ==
    [link |-> item.link, target |-> item.dest, rd_filename |-> item.filename]

InDir(p, dir) == Len(p) = Len(dir) + 1 /\ SubSeq(p, 1, Len(dir)) = dir

JobDir(job) == SeasonPath(job.show, job.season)

(***************************************************************************)
(* C1: a batch call never fails; when it returns, every non-blank link has  *)
(* been processed in order, every link that resolved has its descriptor     *)
(* and its log record whatever failed before or after it, written equals    *)
(* the number of links that resolved, and errors holds one (link, reason)   *)
(* entry per failing link, in processing order.                             *)
(***************************************************************************)
C1_Returned(job) ==
    /\ LinksOf(job.hist) = GivenLinks(job)
    /\ job.written = Len(OkItems(job))
    /\ [k \in 1..Len(job.errors) |-> job.errors[k][1]] = LinksOf(FailedItems(job))
    /\ \A k \in 1..Len(job.errors) :
          job.errors[k][2] \in {"Real-Debrid error", "No direct URL returned"}
    /\ \A k \in 1..Len(OkItems(job)) :
          /\ OkItems(job)[k].dest \in DOMAIN fs
          /\ \E n \in 1..Len(log[MediaType(job)]) :
                log[MediaType(job)][n] = RecordOf(OkItems(job)[k])

C1_BatchIsolatesFailures ==
    \A j \in JobIds :
        IsBatch(jobs[j]) =>
            /\ jobs[j].pc # "raised"
            /\ jobs[j].pc = "done" => C1_Returned(jobs[j])

\* item 2 of 3 failed: two written, one error entry
C1_SecondOfThreeFailed ==
    \E j \in JobIds :
        /\ IsBatch(jobs[j]) /\ jobs[j].pc = "done"
        /\ Len(jobs[j].links) = 3
        /\ [k \in 1..Len(jobs[j].hist) |-> jobs[j].hist[k].ok] = <<TRUE, FALSE, TRUE>>
        /\ jobs[j].written = 2
        /\ Len(jobs[j].errors) = 1

(***************************************************************************)
(* C2: within one episode batch processed sequentially, each synthesized    *)
(* index is the directory's descriptor count at that moment plus one, the   *)
(* synthesized indices strictly increase in processing order, and no two    *)
(* links of the batch get the same descriptor path.                         *)
(***************************************************************************)
PlacingEpisode(j) ==
    /\ jobs[j].kind = "add-episode-links"
    /\ jobs[j].pc = "next" /\ jobs'[j].pc = "write"

C2_NoCollision(j) ==
    /\ jobs'[j].cur.synth =>
          /\ jobs'[j].cur.idx = ExistingCount(fs, JobDir(jobs[j])) + 1
          /\ \A k \in 1..Len(jobs[j].hist) :
                (jobs[j].hist[k].ok /\ jobs[j].hist[k].synth)
                    => jobs[j].hist[k].idx < jobs'[j].cur.idx
    /\ \A k \in 1..Len(jobs[j].hist) :
          jobs[j].hist[k].ok => jobs[j].hist[k].dest # jobs'[j].cur.dest

C2_BatchIndicesNeverCollide ==
    [][\A j \in JobIds : PlacingEpisode(j) => C2_NoCollision(j)]_vars

(***************************************************************************)
(* C3: a re-fetch of a log in which no entry has a link is an error, for    *)
(* movies and for tv alike: the call reports an error, builds no group and  *)
(* starts no job.                                                           *)
(***************************************************************************)
C3_NoUsableLinksIsAnError ==
    (/\ refresh # <<>>
     /\ refresh.status # "not found"
     /\ \A k \in 1..Len(refresh.entries) : refresh.entries[k].link = <<>>)
        => /\ refresh.status = "error"
           /\ refresh.groups = <<>>
           /\ \A j \in JobIds : jobs[j].origin # "refresh"

(***************************************************************************)
(* C4: when a re-fetch starts, its groups partition the usable links in     *)
(* order: for tv the keys are pairwise different, every entry with a link   *)
(* has a group under its inferred (show, season), and each group holds the  *)
(* links of exactly the entries with its key, in the entries' order; for    *)
(* movies there is one group, holding all usable links in the entries'      *)
(* order.  Each group is replayed by one job with the group's links.        *)
(***************************************************************************)
C4_Usable == SelectSeq(refresh.entries, LAMBDA e : e.link # <<>>)

C4_LinksUnder(key) ==
    LinksOf(SelectSeq(refresh.entries, LAMBDA e : e.link # <<>> /\ InferKey(e) = key))

C4_TvPartition ==
    /\ \A g, h \in 1..Len(refresh.groups) :
          g # h => refresh.groups[g].key # refresh.groups[h].key
    /\ \A g \in 1..Len(refresh.groups) :
          /\ refresh.groups[g].links # <<>>
          /\ refresh.groups[g].links = C4_LinksUnder(refresh.groups[g].key)
          /\ jobs[g].kind = "add-episode-links"
          /\ jobs[g].show = refresh.groups[g].key.show
          /\ jobs[g].season = refresh.groups[g].key.season
    /\ \A k \in 1..Len(C4_Usable) :
          \E g \in 1..Len(refresh.groups) : refresh.groups[g].key = InferKey(C4_Usable[k])

C4_MovieGroup ==
    /\ Len(refresh.groups) = 1
    /\ refresh.groups[1].links = LinksOf(C4_Usable)
    /\ jobs[1].kind = "add-movie-links"

C4_GroupingIsOrderedPartition ==
    (refresh # <<>> /\ refresh.status = "started") =>
        /\ IF refresh.media = "movies" THEN C4_MovieGroup ELSE C4_TvPartition
        /\ \A g \in 1..Len(refresh.groups) :
              jobs[g].origin = "refresh" /\ jobs[g].links = refresh.groups[g].links

\* three entries, the second of another show than the first and the third
C4_InterleavedShows ==
    /\ refresh # <<>> /\ refresh.status = "started" /\ refresh.media = "tv"
    /\ Len(refresh.entries) = 3
    /\ Len(refresh.groups) = 2
    /\ refresh.groups[1].links = <<refresh.entries[1].link, refresh.entries[3].link>>
    /\ refresh.groups[2].links = <<refresh.entries[2].link>>

(***************************************************************************)
(* C5: two jobs a re-fetch started for groups with different (show, season) *)
(* keys never share a season directory, and never place a link on the same  *)
(* descriptor path.                                                         *)
(***************************************************************************)
C5_GroupsApart(j, k) ==
    /\ JobDir(jobs[j]) # JobDir(jobs[k])
    /\ \A a \in 1..Len(jobs[j].hist), b \in 1..Len(jobs[k].hist) :
          (jobs[j].hist[a].ok /\ jobs[k].hist[b].ok)
              => jobs[j].hist[a].dest # jobs[k].hist[b].dest

C5_DistinctGroupsShareNothing ==
    \A j, k \in JobIds :
        (/\ j # k
         /\ jobs[j].origin = "refresh" /\ jobs[j].kind = "add-episode-links"
         /\ jobs[k].origin = "refresh" /\ jobs[k].kind = "add-episode-links"
         /\ <<jobs[j].show, jobs[j].season>> # <<jobs[k].show, jobs[k].season>>)
            => C5_GroupsApart(j, k)

(***************************************************************************)
(* C6: whenever an episode batch synthesizes an index, the index is the     *)
(* number of descriptors in the season directory at that very step plus     *)
(* one, whatever other jobs are doing; nothing keeps two jobs on the same   *)
(* directory from reading the same count, and the state in which two        *)
(* different links hold the same index and one descriptor has replaced the  *)
(* other is reachable.                                                      *)
(***************************************************************************)
C6_CountReadFreshPerItem ==
    [][\A j \in JobIds :
          (PlacingEpisode(j) /\ jobs'[j].cur.synth)
              => jobs'[j].cur.idx = ExistingCount(fs, JobDir(jobs[j])) + 1]_vars

\* two jobs on one directory, both returned with one link written, one file
C6_SameIndexCollision ==
    \E j, k \in JobIds :
        /\ j # k
        /\ jobs[j].pc = "done" /\ jobs[k].pc = "done"
        /\ JobDir(jobs[j]) = JobDir(jobs[k])
        /\ jobs[j].written = 1 /\ jobs[k].written = 1
        /\ Len(jobs[j].hist) = 1 /\ Len(jobs[k].hist) = 1
        /\ jobs[j].hist[1].synth /\ jobs[k].hist[1].synth
        /\ jobs[j].hist[1].idx = jobs[k].hist[1].idx
        /\ jobs[j].hist[1].link # jobs[k].hist[1].link
        /\ jobs[j].hist[1].dest = jobs[k].hist[1].dest
        /\ ExistingCount(fs, JobDir(jobs[j])) = 1

(***************************************************************************)
(* C7: when add-movie is run again with the same title and a link that      *)
(* resolves to the same file name, its write goes to the descriptor path    *)
(* of the earlier run, creates no new file, and leaves the file holding     *)
(* the direct URL of this latest run.                                       *)
(***************************************************************************)
C7_Rerun(j, k) ==
    /\ j # k
    /\ jobs[j].kind = "add-movie" /\ jobs[j].pc = "done"
    /\ jobs[k].kind = "add-movie" /\ jobs[k].pc = "write"
    /\ jobs[j].title = jobs[k].title
    /\ jobs[j].hist[1].ok
    /\ jobs[j].hist[1].filename = jobs[k].cur.filename

C7_Overwrites(j, k) ==
    /\ jobs[k].cur.dest = jobs[j].hist[1].dest
    /\ DOMAIN fs' = DOMAIN fs
    /\ fs'[jobs[k].cur.dest] = StrmContent(jobs[k].cur.direct)
    /\ \A p \in DOMAIN fs : p # jobs[k].cur.dest => fs'[p] = fs[p]

C7_MovieRerunOverwrites ==
    [][\A j, k \in JobIds :
          (C7_Rerun(j, k) /\ jobs'[k].pc = "log") => C7_Overwrites(j, k)]_vars

\* the second run resolved to another direct URL; one file, holding the latest
C7_SecondRunWon ==
    /\ jobs[1].kind = "add-movie" /\ jobs[1].pc = "done"
    /\ jobs[2].kind = "add-movie" /\ jobs[2].pc = "done"
    /\ jobs[1].title = jobs[2].title
    /\ jobs[1].hist[1].ok /\ jobs[2].hist[1].ok
    /\ jobs[1].hist[1].filename = jobs[2].hist[1].filename
    /\ jobs[1].hist[1].direct # jobs[2].hist[1].direct
    /\ Cardinality(DOMAIN fs) = 1
    /\ fs[jobs[2].hist[1].dest] = StrmContent(jobs[2].hist[1].direct)

(***************************************************************************)
(* C8: when an episode batch whose names carry no marker is run twice into  *)
(* a season directory that was empty before the first run (all links        *)
(* resolving both times, nothing else writing there), the directory ends    *)
(* with 2n descriptors, the n files of the first run are unchanged, and     *)
(* every index of the second run is higher than every index of the first.   *)
(***************************************************************************)
C8_AllSynth(job) ==
    /\ job.kind = "add-episode-links" /\ job.pc = "done"
    /\ job.hist # <<>>
    /\ \A n \in 1..Len(job.hist) : job.hist[n].ok /\ job.hist[n].synth

C8_RanTwice(j, k) ==
    /\ j < k
    /\ C8_AllSynth(jobs[j]) /\ C8_AllSynth(jobs[k])
    /\ jobs[j].links = jobs[k].links
    /\ JobDir(jobs[j]) = JobDir(jobs[k])
    /\ \A o \in JobIds \ {j, k} : \A n \in 1..Len(jobs[o].hist) :
          jobs[o].hist[n].ok => ~InDir(jobs[o].hist[n].dest, JobDir(jobs[j]))

C8_Appended(j, k) ==
    /\ ExistingCount(fs, JobDir(jobs[j])) = 2 * Len(jobs[j].hist)
    /\ \A n \in 1..Len(jobs[j].hist) :
          /\ jobs[j].hist[n].dest \in DOMAIN fs
          /\ fs[jobs[j].hist[n].dest] = StrmContent(jobs[j].hist[n].direct)
          /\ \A m \in 1..Len(jobs[k].hist) : jobs[k].hist[m].idx > jobs[j].hist[n].idx

C10_Logged(job) ==
    LET oks == OkItems(job)
        n == IF job.pc \in {"write", "log"} THEN Len(oks) - 1 ELSE Len(oks)
    IN  [k \in 1..n |-> RecordOf(oks[k])]

\* commands run one after another, in the order of their slots
RECURSIVE C10_Expected(_, _)
C10_Expected(media_type, k) ==
    IF k = 0 THEN <<>>
    ELSE C10_Expected(media_type, k - 1)
            \o (IF MediaType(jobs[k]) = media_type THEN C10_Logged(jobs[k]) ELSE <<>>)

C10_LogMatchesResolutions ==
    /\ \A m \in {"movies", "tv"} :
          /\ log[m] = C10_Expected(m, MaxJobs)
          /\ \A n \in 1..Len(log[m]) : log[m][n].target \in DOMAIN fs
    /\ \A j \in JobIds :
          jobs[j].pc = "log" =>
              /\ jobs[j].cur.dest \in DOMAIN fs
              /\ fs[jobs[j].cur.dest] = StrmContent(jobs[j].cur.direct)
    /\ \A p \in DOMAIN fs :
          \E j \in JobIds : \E k \in 1..Len(jobs[j].hist) :
              jobs[j].hist[k].ok /\ jobs[j].hist[k].dest = p

C10_AppendOnly ==
    /\ \A m \in {"movies", "tv"} :
          /\ Len(log'[m]) \in {Len(log[m]), Len(log[m]) + 1}
          /\ SubSeq(log'[m], 1, Len(log[m])) = log[m]
    /\ log' # log => \E j \in JobIds : jobs[j].pc = "log" /\ jobs'[j].pc = "next"
    /\ \A j \in JobIds :
          (/\ Len(jobs'[j].hist) = Len(jobs[j].hist) + 1
           /\ ~jobs'[j].hist[Len(jobs'[j].hist)].ok)
              => fs' = fs /\ log' = log

C10_LogAppendOnlyPerSuccess ==
    [][C10_AppendOnly /\ C10_LogMatchesResolutions']_vars

\* a single command, then a batch whose first link failed: two records
C10_TwoRecordsOneFailure ==
    /\ jobs[1].kind = "add-episode" /\ jobs[1].pc = "done"
    /\ jobs[2].kind = "add-episode-links" /\ jobs[2].pc = "done"
    /\ [k \in 1..Len(jobs[2].hist) |-> jobs[2].hist[k].ok] = <<FALSE, TRUE>>
    /\ Len(log["tv"]) = 2
    /\ Len(log["movies"]) = 0

(***************************************************************************)
(* C9: for every input, sanitize returns a string with no reserved          *)
(* character and no trailing dot or space, and it returns the fallback      *)
(* "unnamed" (never the empty string) when the input is empty or becomes    *)
(* empty once reserved characters, surrounding whitespace and trailing      *)
(* dots/spaces are removed.                                                 *)
(***************************************************************************)
C9_SanitizeSafeAndNeverEmpty ==
    res # Pending =>
        LET out == res[2]
            residue == RStripChars(Strip(RemoveChars(raw, Reserved)), {".", " "})
        IN  /\ \A i \in 1..Len(out) : out[i] \notin Reserved
            /\ (out # <<>> => out[Len(out)] \notin {".", " "})
            /\ (Strip(residue) = <<>> => out = Unnamed)
            /\ out # <<>>

(***************************************************************************)
(* C11 as stated: the base name of an episode descriptor is the sanitized   *)
(* candidate stem itself when the stem holds an S<2 digits>E<2 digits>      *)
(* marker (either case), else the stem followed by " - SxxEyy" built from   *)
(* the season and from the episode number given (single command) or the     *)
(* directory's descriptor count plus one (batch); and every base name       *)
(* written holds such a marker.                                             *)
(***************************************************************************)
C11_Stem ==
    IF raw.job.kind = "add-episode"
    THEN EpisodeBaseSingle(raw.r)
    ELSE EpisodeBaseBatch(raw.r, CurLink(raw.job), raw.job.show)

C11_Number ==
    IF raw.job.kind = "add-episode"
    THEN raw.job.episode
    ELSE ExistingCount(raw.files, JobDir(raw.job)) + 1

C11_FileName == res[2].dest[Len(res[2].dest)]

C11_Base == SubSeq(C11_FileName, 1, Len(C11_FileName) - Len(Ext_strm))

C11_Policy ==
    /\ EndsWith(C11_FileName, Ext_strm)
    /\ SubSeq(res[2].dest, 1, Len(res[2].dest) - 1) = JobDir(raw.job)
    /\ IF HasMarker(C11_Stem)
       THEN C11_Base = C11_Stem
       ELSE C11_Base = C11_Stem \o <<" ", "-", " ", "S">> \o Fmt02(raw.job.season)
                            \o <<"E">> \o Fmt02(C11_Number)

C12_Attempts ==
    <<IF raw.target = <<>> THEN NoIdentity
      ELSE infer_show_and_season_from_target(raw.target),
      IF raw.target = <<>> THEN NoIdentity
      ELSE infer_from_filename_for_season(PathName(raw.target)),
      infer_from_filename_for_season(raw.link)>>

\* attempt k is consulted when no earlier attempt gave a show
C12_Consulted ==
    {k \in 1..3 : \A h \in 1..(k - 1) : C12_Attempts[h].show = <<>>}

C12_WithShow == {k \in C12_Consulted : C12_Attempts[k].show # <<>>}

C12_Seasons ==
    {C12_Attempts[k].season : k \in {h \in C12_Consulted : C12_Attempts[h].season # NoSeason}}

C12_KeyFollowsChain ==
    res # Pending =>
        /\ res[2].show = IF C12_WithShow = {} THEN Unknown
                         ELSE C12_Attempts[SetMin(C12_WithShow)].show
        /\ IF C12_Seasons = {} THEN res[2].season = 1 ELSE res[2].season \in C12_Seasons
        /\ res[2].show # <<>>
        /\ res[2].season >= 1

(***************************************************************************)
(* C13: the history record of an episode ingested under show S and season   *)
(* n, parsed and grouped by the re-fetch, gives one group whose key is      *)
(* (sanitize(S), n), and the season directory of that key is the directory  *)
(* the descriptor was written to.                                           *)
(***************************************************************************)
C13_ReplaySameDirectory ==
    res # Pending =>
        /\ Len(res[2].groups) = 1
        /\ res[2].groups[1].key =
              [show |-> sanitize_name(raw.job.show), season |-> raw.job.season]
        /\ SeasonPath(res[2].groups[1].key.show, res[2].groups[1].key.season)
              = SubSeq(res[2].item.dest, 1, Len(res[2].item.dest) - 1)

====
